---- MODULE Spec2Model ----
(***************************************************************************)
(* The ReAct document-exploration agent (langchain/agents/react/base.py)   *)
(* driven by the agent loop of the design (spec.md 4.4).  Text is a        *)
(* sequence of one-character strings, so that prefix tests, line splitting *)
(* and the action regular expression are computed as the code computes     *)
(* them.                                                                   *)
(***************************************************************************)
EXTENDS Integers, Sequences, FiniteSets, TLC

\* ------------------------------------------------------------------ bounds
MaxTools == 3
MaxIter == 2
MaxRuns == 2
MaxRem == 4
MaxStep == 10
MaxSaves == 3
MaxLimit == 3
MaxK == 2

\* ------------------------------------------------------------------ text
NL == "\n"

S_Action == <<"A", "c", "t", "i", "o", "n", " ">>
S_Thought == <<"T", "h", "o", "u", "g", "h", "t", " ">>
S_Observation == <<"O", "b", "s", "e", "r", "v", "a", "t", "i", "o", "n", " ">>
SEARCH == <<"S", "e", "a", "r", "c", "h">>
LOOKUP == <<"L", "o", "o", "k", "u", "p">>
CALCULATE == <<"C", "a", "l", "c", "u", "l", "a", "t", "e">>
FINISH == <<"F", "i", "n", "i", "s", "h">>
\* the message of the AttributeError Python raises when attr is read on None
S_summary == <<"s", "u", "m", "m", "a", "r", "y">>
S_lookup == <<"l", "o", "o", "k", "u", "p">>
AttributeErrorText(attr) ==
    <<"'", "N", "o", "n", "e", "T", "y", "p", "e", "'", " ", "o", "b", "j", "e", "c", "t",
      " ", "h", "a", "s", " ", "n", "o", " ", "a", "t", "t", "r", "i", "b", "u", "t", "e",
      " ", "'">> \o attr \o <<"'">>
\* the message of the ValueError that lookup raises
LookupErrorText ==
    <<"C", "a", "n", "n", "o", "t", " ", "l", "o", "o", "k", "u", "p", " ", "w", "i",
      "t", "h", "o", "u", "t", " ", "a", " ", "s", "u", "c", "c", "e", "s", "s", "f",
      "u", "l", " ", "s", "e", "a", "r", "c", "h", " ", "f", "i", "r", "s", "t">>

DigitChar(d) ==
    CASE d = 0 -> "0" [] d = 1 -> "1" [] d = 2 -> "2" [] d = 3 -> "3"
      [] d = 4 -> "4" [] d = 5 -> "5" [] d = 6 -> "6" [] d = 7 -> "7"
      [] d = 8 -> "8" [] d = 9 -> "9"

CharDigit(c) ==
    CASE c = "0" -> 0 [] c = "1" -> 1 [] c = "2" -> 2 [] c = "3" -> 3
      [] c = "4" -> 4 [] c = "5" -> 5 [] c = "6" -> 6 [] c = "7" -> 7
      [] c = "8" -> 8 [] c = "9" -> 9 [] OTHER -> -1

\* str(n) for a non-negative integer, as the f-strings format self.i
RECURSIVE Str(_)
Str(n) == IF n < 10 THEN <<DigitChar(n)>> ELSE Str(n \div 10) \o <<DigitChar(n % 10)>>

\* int(s) for a digit string; -1 when s is empty or holds a non-digit
RECURSIVE ParseInt(_)
ParseInt(s) ==
    IF Len(s) = 0 THEN -1
    ELSE IF CharDigit(s[Len(s)]) < 0 THEN -1
    ELSE IF Len(s) = 1 THEN CharDigit(s[1])
    ELSE LET r == ParseInt(SubSeq(s, 1, Len(s) - 1))
         IN IF r < 0 THEN -1 ELSE 10 * r + CharDigit(s[Len(s)])

\* str.startswith
StartsWith(s, p) == Len(p) <= Len(s) /\ SubSeq(s, 1, Len(p)) = p

IsPrefix(s, t) == Len(s) <= Len(t) /\ SubSeq(t, 1, Len(s)) = s

\* Positions of character c in s
Positions(s, c) == {k \in 1..Len(s) : s[k] = c}

Max(S) == CHOOSE x \in S : \A y \in S : y <= x
Min(S) == CHOOSE x \in S : \A y \in S : x <= y

\* text.split("\n")[-1]
LastLine(text) ==
    IF Positions(text, NL) = {} THEN text
    ELSE SubSeq(text, Max(Positions(text, NL)) + 1, Len(text))

\* the text before the last line (without the newline that ends it)
BeforeLastLine(text) ==
    IF Positions(text, NL) = {} THEN <<>>
    ELSE SubSeq(text, 1, Max(Positions(text, NL)) - 1)

\* str.strip() for spaces, and str.lower()
Strip(s) ==
    LET keep == {k \in 1..Len(s) : s[k] # " "}
    IN  IF keep = {} THEN <<>> ELSE SubSeq(s, Min(keep), Max(keep))

UpperCase ==
    <<"A", "B", "C", "D", "E", "F", "G", "H", "I", "J", "K", "L", "M", "N", "O", "P", "Q",
      "R", "S", "T", "U", "V", "W", "X", "Y", "Z">>
LowerCase ==
    <<"a", "b", "c", "d", "e", "f", "g", "h", "i", "j", "k", "l", "m", "n", "o", "p", "q",
      "r", "s", "t", "u", "v", "w", "x", "y", "z">>
Lower(s) ==
    [k \in 1..Len(s) |->
        IF \E u \in 1..Len(UpperCase) : UpperCase[u] = s[k]
        THEN LowerCase[CHOOSE u \in 1..Len(UpperCase) : UpperCase[u] = s[k]]
        ELSE s[k]]

\* re.search(r"(.*?)\[(.*?)\]", s): the first "[" and the first "]" after it
\* (ReSearchGreedy: the variant whose second group runs to the last "]")
\* (the local function binds the searched string as a value, so that it is
\* computed once however often the match positions are read)
ReSearchGreedy(s) ==
    LET opens == Positions(s, "[")
    IN  IF opens = {} THEN [matched |-> FALSE, g1 |-> <<>>, g2 |-> <<>>]
        ELSE LET p == Min(opens)
                 closes == {k \in Positions(s, "]") : k > p}
             IN  IF closes = {} THEN [matched |-> FALSE, g1 |-> <<>>, g2 |-> <<>>]
                 ELSE [matched |-> TRUE,
                       g1 |-> SubSeq(s, 1, p - 1),
                       g2 |-> SubSeq(s, p + 1, Max(closes) - 1)]
ReSearch(s) ==
    LET search[t \in {s}] ==
            LET opens == Positions(t, "[")
            IN  IF opens = {} THEN [matched |-> FALSE, g1 |-> <<>>, g2 |-> <<>>]
                ELSE LET p == Min(opens)
                         closes == {k \in Positions(t, "]") : k > p}
                     IN  IF closes = {} THEN [matched |-> FALSE, g1 |-> <<>>, g2 |-> <<>>]
                         ELSE [matched |-> TRUE,
                               g1 |-> SubSeq(t, 1, p - 1),
                               g2 |-> SubSeq(t, p + 1, Min(closes) - 1)]
    IN  search[s]

\* ------------------------------------------------------ ReActDocstoreAgent
\* f"Action {self.i}: "
action_prefix(i) == S_Action \o Str(i) \o <<":", " ">>

\* _fix_text (FixTextWrongIndex: the variant that cues the next step)
FixTextWrongIndex(text, i) == text \o <<NL>> \o S_Action \o Str(i + 1) \o <<":">>
_fix_text(text, i) == text \o <<NL>> \o S_Action \o Str(i) \o <<":">>

\* _extract_tool_and_input: the value returned (or the exception raised) and
\* the value of self.i afterwards (ExtractNoPrefixCheck: the variant without
\* the prefix test; ExtractKeepsPrefix: the variant that does not strip the
\* prefix; ExtractNoneOnBadBrackets: the variant that returns None where the
\* code raises; ExtractWholeText: the variant that reads the whole output
\* instead of its last line; ExtractStripsName: the variant that strips the
\* name)
ExtractKeepsPrefix(text, i) ==
    IF ~StartsWith(LastLine(text), action_prefix(i))
    THEN [kind |-> "None", tool |-> <<>>, input |-> <<>>, i |-> i]
    ELSE LET re_matches == ReSearch(LastLine(text))
         IN  IF ~re_matches.matched
             THEN [kind |-> "ValueError", tool |-> <<>>, input |-> <<>>, i |-> i + 1]
             ELSE [kind |-> "Pair", tool |-> re_matches.g1, input |-> re_matches.g2, i |-> i + 1]
ExtractNoneOnBadBrackets(text, i) ==
    IF ~StartsWith(LastLine(text), action_prefix(i))
    THEN [kind |-> "None", tool |-> <<>>, input |-> <<>>, i |-> i]
    ELSE LET action_block == LastLine(text)
             action_str == SubSeq(action_block, Len(action_prefix(i)) + 1, Len(action_block))
             re_matches == ReSearch(action_str)
         IN  IF ~re_matches.matched
             THEN [kind |-> "None", tool |-> <<>>, input |-> <<>>, i |-> i + 1]
             ELSE [kind |-> "Pair", tool |-> re_matches.g1, input |-> re_matches.g2, i |-> i + 1]
ExtractNoPrefixCheck(text, i) ==
    LET m == ReSearch(LastLine(text))
    IN  IF ~m.matched THEN [kind |-> "ValueError", tool |-> <<>>, input |-> <<>>, i |-> i + 1]
        ELSE [kind |-> "Pair", tool |-> m.g1, input |-> m.g2, i |-> i + 1]
ExtractStripsName(text, i) ==
    IF ~StartsWith(LastLine(text), action_prefix(i))
    THEN [kind |-> "None", tool |-> <<>>, input |-> <<>>, i |-> i]
    ELSE LET action_block == LastLine(text)
             action_str == SubSeq(action_block, Len(action_prefix(i)) + 1, Len(action_block))
             re_matches == ReSearch(action_str)
         IN  IF ~re_matches.matched
             THEN [kind |-> "ValueError", tool |-> <<>>, input |-> <<>>, i |-> i + 1]
             ELSE [kind |-> "Pair", tool |-> Strip(re_matches.g1), input |-> re_matches.g2,
                   i |-> i + 1]
ExtractWholeText(text, i) ==
    IF ~StartsWith(text, action_prefix(i))
    THEN [kind |-> "None", tool |-> <<>>, input |-> <<>>, i |-> i]
    ELSE LET action_str == SubSeq(text, Len(action_prefix(i)) + 1, Len(text))
             re_matches == ReSearch(action_str)
         IN  IF ~re_matches.matched
             THEN [kind |-> "ValueError", tool |-> <<>>, input |-> <<>>, i |-> i + 1]
             ELSE [kind |-> "Pair", tool |-> re_matches.g1, input |-> re_matches.g2, i |-> i + 1]
_extract_tool_and_input(text, i) ==
    IF ~StartsWith(LastLine(text), action_prefix(i))
    THEN [kind |-> "None", tool |-> <<>>, input |-> <<>>, i |-> i]
    ELSE LET action_block == LastLine(text)
             action_str == SubSeq(action_block, Len(action_prefix(i)) + 1, Len(action_block))
             re_matches == ReSearch(action_str)
         IN  IF ~re_matches.matched
             THEN [kind |-> "ValueError", tool |-> <<>>, input |-> <<>>, i |-> i + 1]
             ELSE [kind |-> "Pair", tool |-> re_matches.g1, input |-> re_matches.g2, i |-> i + 1]

\* finish_tool_name (FinishMisnamed: the variant naming another finish tool)
FinishMisnamed == <<"F", "i", "n", "a", "l">>
finish_tool_name == FINISH

observation_prefix(i) == S_Observation \o Str(i - 1) \o <<":", " ">>

_stop(i) == <<NL>> \o S_Observation \o Str(i) \o <<":", " ">>

\* llm_prefix (LlmPrefixOffByOne: the variant one step ahead of the parser)
LlmPrefixOffByOne(i) == S_Thought \o Str(i + 1) \o <<":">>
llm_prefix(i) == S_Thought \o Str(i) \o <<":">>

\* _validate_tools: TRUE when no ValueError is raised (ValidateNamesOnly and
\* ValidateLengthOnly: the variants with one of the two tests dropped)
ValidateLengthOnly(ts) == Len(ts) = 2
ValidateNamesOnly(ts) == {ts[k] : k \in 1..Len(ts)} = {LOOKUP, SEARCH}
_validate_tools(ts) ==
    /\ Len(ts) = 2
    /\ {ts[k] : k \in 1..Len(ts)} = {LOOKUP, SEARCH}

\* --------------------------------------------------------- DocstoreExplorer
\* The document store collaborator: search(term) returns a Document
\* (isdoc) or suggestion text.
DocstoreSearch(term) ==
    IF term = <<"a">> THEN [isdoc |-> TRUE, doc |-> "A", text |-> <<>>]
    ELSE IF term = <<"b">> THEN [isdoc |-> TRUE, doc |-> "B", text |-> <<>>]
    ELSE [isdoc |-> FALSE, doc |-> "None", text |-> <<"n", "o", "?">>]

\* Document.summary and Document.lookup(term) of the collaborator
DocumentSummary(d) == IF d = "A" THEN <<"s", "A">> ELSE <<"s", "B">>
DocumentLookup(d, term) == (IF d = "A" THEN <<"A", "/">> ELSE <<"B", "/">>) \o term

\* DocstoreExplorer.search: the text returned and self.document afterwards
\* (SearchKeepsDocument: the variant that keeps the document on a miss)
SearchKeepsDocument(term, doc) ==
    LET result == DocstoreSearch(term)
    IN  IF result.isdoc
        THEN [ret |-> DocumentSummary(result.doc), document |-> result.doc]
        ELSE [ret |-> result.text, document |-> doc]
search(term, doc) ==
    LET result == DocstoreSearch(term)
    IN  IF result.isdoc
        THEN [ret |-> DocumentSummary(result.doc), document |-> result.doc]
        ELSE [ret |-> result.text, document |-> "None"]

\* DocstoreExplorer.lookup: the text returned, or the ValueError raised
\* (LookupNoGuard: the variant without the None test)
LookupNoGuard(term, doc) == [raised |-> FALSE, ret |-> DocumentLookup(doc, term)]
lookup(term, doc) ==
    IF doc = "None" THEN [raised |-> TRUE, ret |-> LookupErrorText]
    ELSE [raised |-> FALSE, ret |-> DocumentLookup(doc, term)]

\* ------------------------------------------------------------ ChainedInput
\* ChainedInput.__init__ and ChainedInput.add on the accumulated _input
\* (AddReplaces: the variant that assigns instead of appending)
ChainedInputInit(text) == text
AddReplaces(inp, text) == text
add(inp, text) == inp \o text

\* --------------------------------------------------------------- the model
Question == <<"Q">>
ThoughtText == <<" ", "t">>

Bracketed(name, input) == name \o <<"[">> \o input \o <<"]">>

\* What the language model may answer to a prompt whose cue carries n
WellFormed(n) ==
    { ThoughtText \o <<NL>> \o action_prefix(n) \o Bracketed(t[1], t[2]) :
        t \in { <<SEARCH, <<"a">> >>, <<SEARCH, <<"b">> >>, <<SEARCH, <<"z">> >>, <<LOOKUP, <<"t">> >>,
                <<FINISH, <<"x">> >>, <<CALCULATE, <<"x">> >> } }
WrongNumber(n) == ThoughtText \o <<NL>> \o action_prefix(n + 1) \o Bracketed(SEARCH, <<"a">>)
NoActionLine == ThoughtText
NoBrackets(n) == ThoughtText \o <<NL>> \o action_prefix(n) \o SEARCH
BackwardBrackets(n) ==
    ThoughtText \o <<NL>> \o action_prefix(n) \o SEARCH \o <<"]", "a", "[">>
\* answers whose tool name is a registered name or the finish name in another
\* letter case or with a space around it
NearNames == {Lower(SEARCH), <<" ">> \o SEARCH, FINISH \o <<" ">>, Lower(FINISH)}
NearMisses(n) ==
    { ThoughtText \o <<NL>> \o action_prefix(n) \o Bracketed(nm, <<"a">>) : nm \in NearNames }
Responses(n) ==
    WellFormed(n) \cup {WrongNumber(n), NoActionLine, NoBrackets(n), BackwardBrackets(n)}
        \cup NearMisses(n)

\* What it may answer to the repaired prompt, which ends "Action n:"
Continuations ==
    { <<" ">> \o Bracketed(SEARCH, <<"a">>), <<" ">> \o Bracketed(CALCULATE, <<"x">>),
      <<" ">> \o Bracketed(FINISH, <<"x">>), <<"?">>, <<" ">> \o SEARCH }

\* ------------------------------------------------------------------- state
VARIABLES
    tools,           \* the tool names the agent is constructed with
    agent,           \* "new", "constructed" or "config_error"
    max_iterations,  \* AgentConfig.max_iterations
    i,               \* ReActDocstoreAgent.i
    document,        \* DocstoreExplorer.document: "None" or a document
    state,           \* the loop state
    outcome,         \* "none", "success" or "failure"
    error,           \* the failure category of DONE(failure)
    result,          \* the value run returns
    scratchpad,      \* the Steps of the current run
    chained_input,   \* ChainedInput._input: the serialized transcript
    output,          \* the model output being parsed
    retried,         \* the repair retry of this step has been issued
    parsed,          \* the ParsedAction being dispatched
    run,             \* runs started on this agent
    model_calls,     \* model invocations of this run
    step_calls,      \* model invocations of this step
    tool_calls,      \* tool invocations of this run
    searched,        \* a Search of this run found a document
    prompt,          \* the text of the last model invocation
    stop,            \* the stop sequence of the last model invocation
    p_text,          \* parser harness: the text handed to the parser
    p_i,             \* parser harness: self.i
    p_ret,           \* parser harness: what the parser returned or raised
    c_i,             \* two runs on one agent: ReActDocstoreAgent.i
    c_document,      \* two runs on one agent: DocstoreExplorer.document
    c_runs,          \* two runs on one agent: the state of each run's loop
    l_pc,            \* loader: the function about to execute
    l_path,          \* loader: the path given to load_agent
    l_file,          \* loader: the configuration the file at the path holds
    l_config,        \* loader: the config dict
    l_kwargs,        \* loader: the keyword overrides in hand
    l_given,         \* loader: the keyword overrides the caller gave
    l_loaded,        \* loader: the chain loads made so far
    l_agent,         \* loader: the agent constructed
    l_error,         \* loader: the ValueError raised
    sb_buffer,       \* ConversationSummaryBufferMemory.buffer
    moving_summary_buffer, \* ConversationSummaryBufferMemory.moving_summary_buffer
    max_token_limit, \* ConversationSummaryBufferMemory.max_token_limit
    sb_saved,        \* summary memory: the exchanges saved since the last clear
    sb_stored,       \* summary memory: the pruned lists of the summarizer calls stored
    sb_ret,          \* summary memory: how the last call ended
    sb_calls,        \* summary memory: the locals of each caller's save_context in progress
    sb_appends,      \* summary memory: the number of exchanges ever appended
    bw_buffer,       \* ConversationalBufferWindowMemory.buffer
    bw_k,            \* ConversationalBufferWindowMemory.k
    bw_saved,        \* window memory: the exchanges saved since the last clear
    bw_ret           \* window memory: what the last call returned or raised

vars == <<tools, agent, max_iterations, i, document, state, outcome, error, result,
          scratchpad, chained_input, output, retried, parsed, run, model_calls,
          step_calls, tool_calls, searched, prompt, stop, p_text, p_i, p_ret,
          c_i, c_document, c_runs,
          l_pc, l_path, l_file, l_config, l_kwargs, l_given, l_loaded, l_agent, l_error,
          sb_buffer, moving_summary_buffer, max_token_limit, sb_saved, sb_stored, sb_ret,
          sb_calls, sb_appends, bw_buffer, bw_k, bw_saved, bw_ret>>

\* the variables of the harnesses, which the agent loop leaves alone
pvars == <<p_text, p_i, p_ret>>
cvars == <<c_i, c_document, c_runs>>
lvars == <<l_pc, l_path, l_file, l_config, l_kwargs, l_given, l_loaded, l_agent, l_error>>
sbvars == <<sb_buffer, moving_summary_buffer, max_token_limit, sb_saved, sb_stored, sb_ret,
            sb_calls, sb_appends>>
bwvars == <<bw_buffer, bw_k, bw_saved, bw_ret>>
aux == <<pvars, cvars, lvars, sbvars, bwvars>>

ToolNames == {SEARCH, LOOKUP, CALCULATE}

RECURSIVE SeqsUpTo(_, _)
SeqsUpTo(S, n) ==
    IF n = 0 THEN {<<>>}
    ELSE LET shorter == SeqsUpTo(S, n - 1)
         IN  shorter \cup {Append(s, x) : s \in {t \in shorter : Len(t) = n - 1}, x \in S}

NoAction == [tool |-> <<>>, input |-> <<>>]

NoParse == [done |-> FALSE, i0 |-> 0, kind |-> "None", tool |-> <<>>, input |-> <<>>]

\* the parser harness at rest
PIdle ==
    /\ p_text = <<>>
    /\ p_i = 1
    /\ p_ret = NoParse

\* a run of the two-run harness that has not started
RunIdle ==
    [state |-> "IDLE", scratchpad |-> <<>>, chained_input |-> <<>>, prompt |-> <<>>,
     output |-> <<>>, retried |-> FALSE, n |-> 0, loaded |-> 0, parsed |-> NoAction,
     observation |-> <<>>, opened |-> {}, read |-> "None", error |-> "none"]

Runs == {1, 2}

\* the two-run harness at rest
CIdle ==
    /\ c_i = 1
    /\ c_document = "None"
    /\ c_runs = [r \in Runs |-> RunIdle]

\* a Python dict with string keys, and the dict operations the loader uses
EmptyDict == [k \in {} |-> ""]
Has(d, k) == k \in DOMAIN d
Pop(d, k) == [x \in DOMAIN d \ {k} |-> d[x]]
Put(d, k, v) == [x \in DOMAIN d \cup {k} |-> IF x = k THEN v ELSE d[x]]
Merge(d, e) == [x \in DOMAIN d \cup DOMAIN e |-> IF x \in DOMAIN e THEN e[x] ELSE d[x]]

NoPath == [hub |-> FALSE, suffix |-> "", status |-> 0]
NoAgent == [cls |-> "None", config |-> EmptyDict]

\* the loader at rest
LIdle ==
    /\ l_pc = "idle"
    /\ l_path = NoPath
    /\ l_file = EmptyDict
    /\ l_config = EmptyDict
    /\ l_kwargs = EmptyDict
    /\ l_given = EmptyDict
    /\ l_loaded = <<>>
    /\ l_agent = NoAgent
    /\ l_error = "none"

NoCall == [call |-> "none", raised |-> FALSE, value |-> <<>>]

\* the threads that call the summary memory, and a thread that is in no call:
\* new_lines, pruned_memory and the summary argument are locals of
\* save_context, entry is the buffer the call found
Callers == {1, 2}
CallIdle ==
    [pc |-> "idle", new_lines |-> <<>>, entry |-> <<>>, pruned_memory |-> <<>>,
     summary |-> <<>>]

\* a new ConversationSummaryBufferMemory (max_token_limit and the calling
\* threads are set by Init)
SBNew ==
    /\ sb_buffer = <<>>
    /\ moving_summary_buffer = <<>>
    /\ sb_saved = <<>>
    /\ sb_stored = <<>>
    /\ sb_ret = NoCall
    /\ sb_appends = 0

\* the summary memory at rest
SBIdle ==
    /\ SBNew
    /\ max_token_limit = 0
    /\ sb_calls = [t \in {1} |-> CallIdle]

\* a new ConversationalBufferWindowMemory (k is set by Init)
BWNew ==
    /\ bw_buffer = <<>>
    /\ bw_saved = <<>>
    /\ bw_ret = NoCall

\* the window memory at rest
BWIdle ==
    /\ BWNew
    /\ bw_k = 0

\* a new agent object and no run
LoopRest ==
    /\ agent = "new"
    /\ i = 1
    /\ document = "None"
    /\ state = "IDLE"
    /\ outcome = "none"
    /\ error = "none"
    /\ result = <<>>
    /\ scratchpad = <<>>
    /\ chained_input = <<>>
    /\ output = <<>>
    /\ retried = FALSE
    /\ parsed = NoAction
    /\ run = 0
    /\ model_calls = 0
    /\ step_calls = 0
    /\ tool_calls = 0
    /\ searched = FALSE
    /\ prompt = <<>>
    /\ stop = <<>>

\* the agent loop at rest, for the specifications of the harnesses
LoopIdle ==
    /\ tools = <<SEARCH, LOOKUP>>
    /\ max_iterations = 1
    /\ LoopRest

Init ==
    /\ tools \in SeqsUpTo(ToolNames, MaxTools)
    /\ max_iterations \in 1..MaxIter
    /\ LoopRest
    /\ PIdle
    /\ CIdle
    /\ LIdle
    /\ SBIdle
    /\ BWIdle

\* The lines of a text, text.split("\n")
RECURSIVE Lines(_)
Lines(text) ==
    IF Positions(text, NL) = {} THEN <<text>>
    ELSE Append(Lines(BeforeLastLine(text)), LastLine(text))

\* The integer n of the last "Thought n:" cue of a prompt, as its reader
\* finds it; -1 when the prompt carries none
CueNumber(text) ==
    LET n == Len(S_Thought)
        cues == {p \in 1..Len(text) :
                    /\ p = 1 \/ text[p - 1] = NL
                    /\ p + n - 1 <= Len(text)
                    /\ SubSeq(text, p, p + n - 1) = S_Thought
                    /\ \E q \in p..Len(text) : text[q] = ":" /\ \A m \in p..q : text[m] # NL}
    IN  IF cues = {} THEN -1
        ELSE LET p == Max(cues)
                 q == Min({c \in p..Len(text) : text[c] = ":"})
             IN  ParseInt(SubSeq(text, p + n, q - 1))

\* Tool Registry: lookup(name) finds a tool iff the name is registered
Registered(ts, name) == \E k \in 1..Len(ts) : ts[k] = name

\* ----------------------------------------------------------- construction
Construct ==
    /\ agent = "new"
    /\ agent' = IF _validate_tools(tools) THEN "constructed" ELSE "config_error"
    /\ UNCHANGED <<aux, tools, max_iterations, i, document, state, outcome, error, result,
                   scratchpad, chained_input, output, retried, parsed, run, model_calls,
                   step_calls, tool_calls, searched, prompt, stop>>

\* ------------------------------------------------------------ the agent loop
\* run(question): a new run on the constructed agent
StartRun ==
    /\ agent = "constructed"
    /\ state \in {"IDLE", "DONE"}
    /\ run < MaxRuns
    /\ state' = "RUNNING"
    /\ outcome' = "none"
    /\ error' = "none"
    /\ result' = <<>>
    /\ scratchpad' = <<>>
    /\ chained_input' = ChainedInputInit(Question)
    /\ output' = <<>>
    /\ retried' = FALSE
    /\ parsed' = NoAction
    /\ run' = run + 1
    /\ model_calls' = 0
    /\ step_calls' = 0
    /\ tool_calls' = 0
    /\ searched' = FALSE
    /\ prompt' = <<>>
    /\ stop' = <<>>
    /\ UNCHANGED <<aux, tools, agent, max_iterations, i, document>>

Done(o, e, res) ==
    /\ state' = "DONE"
    /\ outcome' = o
    /\ error' = e
    /\ result' = res

\* max_iterations is exhausted once that many Steps are completed
\* (LimitReachedLate: the variant that allows one Step more)
LimitReachedLate(pad, n) == Len(pad) > n
LimitReached(pad, n) == Len(pad) >= n

\* RUNNING -> AWAITING_MODEL: render the prompt and invoke the model
\* (computed values are bound by \E over a singleton: each is computed once)
InvokeModel ==
    /\ state = "RUNNING"
    /\ ~LimitReached(scratchpad, max_iterations)
    /\ \E rendered \in {add(chained_input, <<NL>> \o llm_prefix(i))} :
           /\ chained_input' = rendered
           /\ prompt' = rendered
           /\ \E n \in {CueNumber(rendered)} : \E r \in Responses(n) : output' = r
    /\ stop' = _stop(i)
    /\ state' = "AWAITING_MODEL"
    /\ retried' = FALSE
    /\ model_calls' = model_calls + 1
    /\ step_calls' = 1
    /\ UNCHANGED <<aux, tools, agent, max_iterations, i, document, outcome, error, result,
                   scratchpad, parsed, run, tool_calls, searched>>

\* RUNNING with max_iterations exhausted
LimitExceeded ==
    /\ state = "RUNNING"
    /\ LimitReached(scratchpad, max_iterations)
    /\ Done("failure", "IterationLimitExceeded", <<>>)
    /\ UNCHANGED <<aux, tools, agent, max_iterations, i, document, scratchpad, chained_input,
                   output, retried, parsed, run, model_calls, step_calls, tool_calls,
                   searched, prompt, stop>>

\* Unparseable, first time: the repair retry
ParseRepair ==
    /\ state = "AWAITING_MODEL"
    /\ \E r \in {_extract_tool_and_input(output, i)}, fixed \in {_fix_text(output, i)} :
           /\ r.kind = "None"
           /\ ~retried
           /\ i' = r.i
           /\ prompt' = chained_input \o fixed
           /\ \E c \in Continuations : output' = fixed \o c
    /\ retried' = TRUE
    /\ model_calls' = model_calls + 1
    /\ step_calls' = step_calls + 1
    /\ UNCHANGED <<aux, tools, agent, max_iterations, document, state, outcome, error, result,
                   scratchpad, chained_input, parsed, run, tool_calls, searched, stop>>

\* Unparseable after the repair retry
ParseFail ==
    /\ state = "AWAITING_MODEL"
    /\ \E r \in {_extract_tool_and_input(output, i)} :
           /\ r.kind = "None"
           /\ retried
           /\ i' = r.i
    /\ Done("failure", "ParseError", <<>>)
    /\ UNCHANGED <<aux, tools, agent, max_iterations, document, scratchpad, chained_input,
                   output, retried, parsed, run, model_calls, step_calls, tool_calls,
                   searched, prompt, stop>>

\* The prefix matched and the brackets did not: the parser raises
ParseHardError ==
    /\ state = "AWAITING_MODEL"
    /\ \E r \in {_extract_tool_and_input(output, i)} :
           /\ r.kind = "ValueError"
           /\ i' = r.i
    /\ Done("failure", "ParseError", <<>>)
    /\ UNCHANGED <<aux, tools, agent, max_iterations, document, scratchpad, chained_input,
                   output, retried, parsed, run, model_calls, step_calls, tool_calls,
                   searched, prompt, stop>>

\* FinalAnswer
ParseFinish ==
    /\ state = "AWAITING_MODEL"
    /\ \E r \in {_extract_tool_and_input(output, i)} :
           /\ r.kind = "Pair"
           /\ r.tool = finish_tool_name
           /\ i' = r.i
           /\ Done("success", "none", r.input)
    /\ UNCHANGED <<aux, tools, agent, max_iterations, document, scratchpad, chained_input,
                   output, retried, parsed, run, model_calls, step_calls, tool_calls,
                   searched, prompt, stop>>

\* ToolInvocation
ParseTool ==
    /\ state = "AWAITING_MODEL"
    /\ \E r \in {_extract_tool_and_input(output, i)} :
           /\ r.kind = "Pair"
           /\ r.tool # finish_tool_name
           /\ i' = r.i
           /\ parsed' = [tool |-> r.tool, input |-> r.input]
    /\ state' = "DISPATCHING_TOOL"
    /\ UNCHANGED <<aux, tools, agent, max_iterations, document, outcome, error, result,
                   scratchpad, chained_input, output, retried, run, model_calls,
                   step_calls, tool_calls, searched, prompt, stop>>

\* DISPATCHING_TOOL: the name is not in the registry
DispatchNotFound ==
    /\ state = "DISPATCHING_TOOL"
    /\ ~Registered(tools, parsed.tool)
    /\ Done("failure", "DispatchError", <<>>)
    /\ UNCHANGED <<aux, tools, agent, max_iterations, i, document, scratchpad, chained_input,
                   output, retried, parsed, run, model_calls, step_calls, tool_calls,
                   searched, prompt, stop>>

\* The tools ReActChain.__init__ registers: Search is docstore_explorer.search,
\* Lookup is docstore_explorer.lookup.  A ValueError of lookup is a recoverable
\* tool error: its text is the observation.
InvokeTool(name, input, doc) ==
    IF name = SEARCH
    THEN LET s == search(input, doc)
         IN  [observation |-> s.ret, document |-> s.document,
              found |-> DocstoreSearch(input).isdoc]
    ELSE LET l == lookup(input, doc)
         IN  [observation |-> l.ret, document |-> doc, found |-> FALSE]

\* DISPATCHING_TOOL: invoke the tool and append the Step
DispatchTool ==
    /\ state = "DISPATCHING_TOOL"
    /\ Registered(tools, parsed.tool)
    /\ LET t == InvokeTool(parsed.tool, parsed.input, document)
           step == [thought |-> BeforeLastLine(output), tool_name |-> parsed.tool,
                    tool_input |-> parsed.input, observation |-> t.observation]
       IN  /\ document' = t.document
           /\ searched' = (searched \/ t.found)
           /\ scratchpad' = Append(scratchpad, step)
           /\ chained_input' =
                  add(add(add(chained_input, output), <<NL>> \o observation_prefix(i)),
                      t.observation)
    /\ tool_calls' = tool_calls + 1
    /\ state' = "RUNNING"
    /\ UNCHANGED <<aux, tools, agent, max_iterations, i, outcome, error, result, output,
                   retried, parsed, run, model_calls, step_calls, prompt, stop>>

\* DISPATCHING_TOOL: the document store fails fatally
DispatchFatal ==
    /\ state = "DISPATCHING_TOOL"
    /\ parsed.tool = SEARCH
    /\ Registered(tools, parsed.tool)
    /\ tool_calls' = tool_calls + 1
    /\ Done("failure", "ToolExecutionError", <<>>)
    /\ UNCHANGED <<aux, tools, agent, max_iterations, i, document, scratchpad, chained_input,
                   output, retried, parsed, run, model_calls, step_calls, searched,
                   prompt, stop>>

Next ==
    \/ Construct
    \/ StartRun
    \/ InvokeModel
    \/ LimitExceeded
    \/ ParseRepair
    \/ ParseFail
    \/ ParseHardError
    \/ ParseFinish
    \/ ParseTool
    \/ DispatchNotFound
    \/ DispatchTool
    \/ DispatchFatal

Spec == Init /\ [][Next]_vars

\* A step of a running loop.  The loop is synchronous and its collaborators
\* return, so a run that can take a step eventually takes one; starting
\* another run is up to the caller.
LoopStep ==
    \/ InvokeModel
    \/ LimitExceeded
    \/ ParseRepair
    \/ ParseFail
    \/ ParseHardError
    \/ ParseFinish
    \/ ParseTool
    \/ DispatchNotFound
    \/ DispatchTool
    \/ DispatchFatal

LiveSpec == Spec /\ WF_vars(LoopStep)

\* ------------------------------------------------------- the parser alone
\* Every text of at most MaxRem characters over a name character and the two
\* brackets: the remainders of an action line
Remainders == SeqsUpTo({"a", "[", "]"}, MaxRem)

\* The texts handed to the parser when self.i = n: a last line that carries
\* the prefix of n, of another step, the prefix without its space, or none,
\* alone or after an earlier line that is itself a well-formed action of n
ParserTexts(n) ==
    { e \o pre \o r :
        e \in {<<>>, action_prefix(n) \o Bracketed(SEARCH, <<"a">>) \o <<NL>>},
        pre \in {action_prefix(n), action_prefix(n + 1), action_prefix(10 * n),
                 S_Action \o Str(n) \o <<":">>, <<>>},
        r \in Remainders }

ParserInit ==
    /\ LoopIdle
    /\ CIdle
    /\ LIdle
    /\ SBIdle
    /\ BWIdle
    /\ p_i \in 1..MaxStep
    /\ p_text \in ParserTexts(p_i)
    /\ p_ret = NoParse

\* one call of _extract_tool_and_input(p_text)
ParseText ==
    /\ ~p_ret.done
    /\ LET r == _extract_tool_and_input(p_text, p_i)
       IN  /\ p_ret' = [done |-> TRUE, i0 |-> p_i, kind |-> r.kind, tool |-> r.tool,
                        input |-> r.input]
           /\ p_i' = r.i
    /\ UNCHANGED <<p_text, tools, agent, max_iterations, i, document, state, outcome,
                   error, result, scratchpad, chained_input, output, retried, parsed,
                   run, model_calls, step_calls, tool_calls, searched, prompt, stop,
                   cvars, lvars, sbvars, bwvars>>

ParserNext == ParseText

ParserSpec == ParserInit /\ [][ParserNext]_vars

\* ------------------------------------------------- two runs on one agent
\* Two invocations of the loop on the same ReActDocstoreAgent and the same
\* DocstoreExplorer, interleaved at the model and tool calls.  self.i and
\* self.document are attributes of the shared objects.
loopvars == <<tools, agent, max_iterations, i, document, state, outcome, error, result,
              scratchpad, chained_input, output, retried, parsed, run, model_calls,
              step_calls, tool_calls, searched, prompt, stop>>

\* What the language model answers to a prompt whose cue carries n
ConcResponses(n) ==
    { ThoughtText \o <<NL>> \o action_prefix(n) \o Bracketed(t[1], t[2]) :
        t \in { <<SEARCH, <<"a">> >>, <<SEARCH, <<"z">> >>,
                <<LOOKUP, <<"t">> >>, <<FINISH, <<"x">> >> } }

\* What it answers to the repaired prompt, which ends "Action n:"
ConcContinuations == { <<" ">> \o Bracketed(CALCULATE, <<"x">>), <<" ">> \o SEARCH }

ConcInit ==
    /\ tools = <<SEARCH, LOOKUP>>
    /\ max_iterations = MaxIter
    /\ LoopRest
    /\ PIdle
    /\ CIdle
    /\ LIdle
    /\ SBIdle
    /\ BWIdle

\* run() returns or raises: its locals are gone; what its tools opened and
\* read is kept
ConcDone(r, e) ==
    c_runs' = [c_runs EXCEPT ![r] = [RunIdle EXCEPT !.state = "DONE", !.error = e,
                                                    !.opened = c_runs[r].opened,
                                                    !.read = c_runs[r].read]]

\* run(question) is called while the other run has not returned
ConcStartRun(r) ==
    /\ c_runs[r].state = "IDLE"
    /\ \A o \in Runs \ {r} : c_runs[o].state # "DONE"
    /\ c_runs' = [c_runs EXCEPT ![r].state = "RUNNING",
                                ![r].chained_input = ChainedInputInit(Question)]
    /\ UNCHANGED <<c_i, c_document, loopvars, pvars, lvars, sbvars, bwvars>>

ConcInvokeModel(r) ==
    /\ c_runs[r].state = "RUNNING"
    /\ ~LimitReached(c_runs[r].scratchpad, max_iterations)
    /\ \E rendered \in {add(c_runs[r].chained_input, <<NL>> \o llm_prefix(c_i))} :
         \E n \in {CueNumber(rendered)} : \E out \in ConcResponses(n) :
            c_runs' = [c_runs EXCEPT ![r].state = "AWAITING_MODEL",
                                     ![r].chained_input = rendered,
                                     ![r].prompt = rendered,
                                     ![r].output = out,
                                     ![r].retried = FALSE]
    /\ UNCHANGED <<c_i, c_document, loopvars, pvars, lvars, sbvars, bwvars>>

ConcLimitExceeded(r) ==
    /\ c_runs[r].state = "RUNNING"
    /\ LimitReached(c_runs[r].scratchpad, max_iterations)
    /\ ConcDone(r, "IterationLimitExceeded")
    /\ UNCHANGED <<c_i, c_document, loopvars, pvars, lvars, sbvars, bwvars>>

\* _extract_tool_and_input returns None (lines 38-40) and the loop goes on
\* to its one repair
ConcParseRepair(r) ==
    /\ c_runs[r].state = "AWAITING_MODEL"
    /\ ~c_runs[r].retried
    /\ ~StartsWith(LastLine(c_runs[r].output), action_prefix(c_i))
    /\ c_runs' = [c_runs EXCEPT ![r].state = "FIXING"]
    /\ UNCHANGED <<c_i, c_document, loopvars, pvars, lvars, sbvars, bwvars>>

\* _fix_text with self.i as it is now, and the model's answer to the
\* repaired prompt
ConcFixText(r) ==
    /\ c_runs[r].state = "FIXING"
    /\ \E fixed \in {_fix_text(c_runs[r].output, c_i)} :
         \E c \in ConcContinuations :
            c_runs' = [c_runs EXCEPT ![r].state = "AWAITING_MODEL",
                                     ![r].prompt = c_runs[r].chained_input \o fixed,
                                     ![r].output = fixed \o c,
                                     ![r].retried = TRUE]
    /\ UNCHANGED <<c_i, c_document, loopvars, pvars, lvars, sbvars, bwvars>>

ConcParseFail(r) ==
    /\ c_runs[r].state = "AWAITING_MODEL"
    /\ c_runs[r].retried
    /\ ~StartsWith(LastLine(c_runs[r].output), action_prefix(c_i))
    /\ ConcDone(r, "ParseError")
    /\ UNCHANGED <<c_i, c_document, loopvars, pvars, lvars, sbvars, bwvars>>

\* _extract_tool_and_input, lines 38-39: action_prefix is built from self.i
\* as it is now and the last line starts with it; the run keeps the number
\* read (n) and has not yet incremented self.i
ConcParseTest(r) ==
    /\ c_runs[r].state = "AWAITING_MODEL"
    /\ StartsWith(LastLine(c_runs[r].output), action_prefix(c_i))
    /\ c_runs' = [c_runs EXCEPT ![r].state = "PARSING", ![r].n = c_i]
    /\ UNCHANGED <<c_i, c_document, loopvars, pvars, lvars, sbvars, bwvars>>

\* _extract_tool_and_input, line 41, self.i += 1: self.i is read
ConcIncrementRead(r) ==
    /\ c_runs[r].state = "PARSING"
    /\ c_runs' = [c_runs EXCEPT ![r].state = "INCREMENTING", ![r].loaded = c_i]
    /\ UNCHANGED <<c_i, c_document, loopvars, pvars, lvars, sbvars, bwvars>>

\* _extract_tool_and_input, lines 41-49: the value read plus one is stored
\* in self.i, then the directive is parsed with the action_prefix built at
\* line 38
ConcParseHardError(r) ==
    /\ c_runs[r].state = "INCREMENTING"
    /\ \E x \in {_extract_tool_and_input(c_runs[r].output, c_runs[r].n)} :
         x.kind = "ValueError"
    /\ c_i' = c_runs[r].loaded + 1
    /\ ConcDone(r, "ParseError")
    /\ UNCHANGED <<c_document, loopvars, pvars, lvars, sbvars, bwvars>>

ConcParseFinish(r) ==
    /\ c_runs[r].state = "INCREMENTING"
    /\ \E x \in {_extract_tool_and_input(c_runs[r].output, c_runs[r].n)} :
         /\ x.kind = "Pair"
         /\ x.tool = finish_tool_name
    /\ c_i' = c_runs[r].loaded + 1
    /\ ConcDone(r, "none")
    /\ UNCHANGED <<c_document, loopvars, pvars, lvars, sbvars, bwvars>>

ConcParseTool(r) ==
    /\ c_runs[r].state = "INCREMENTING"
    /\ \E x \in {_extract_tool_and_input(c_runs[r].output, c_runs[r].n)} :
         /\ x.kind = "Pair"
         /\ x.tool # finish_tool_name
         /\ c_runs' = [c_runs EXCEPT ![r].state = "DISPATCHING_TOOL",
                                     ![r].parsed = [tool |-> x.tool, input |-> x.input]]
    /\ c_i' = c_runs[r].loaded + 1
    /\ UNCHANGED <<c_document, loopvars, pvars, lvars, sbvars, bwvars>>

ConcDispatchNotFound(r) ==
    /\ c_runs[r].state = "DISPATCHING_TOOL"
    /\ ~Registered(tools, c_runs[r].parsed.tool)
    /\ ConcDone(r, "DispatchError")
    /\ UNCHANGED <<c_i, c_document, loopvars, pvars, lvars, sbvars, bwvars>>

\* the tool call of a run has returned observation
ConcReturned(me, observation) ==
    [me EXCEPT !.state = "OBSERVING", !.observation = observation]

\* the run after its tool call returned observation: the Step is appended
\* and the transcript extended
ConcStepped(me, observation) ==
    [me EXCEPT
       !.state = "RUNNING",
       !.observation = <<>>,
       !.scratchpad =
           Append(me.scratchpad,
                  [thought |-> BeforeLastLine(me.output),
                   tool_name |-> me.parsed.tool,
                   tool_input |-> me.parsed.input,
                   observation |-> observation]),
       !.chained_input =
           add(add(add(me.chained_input, me.output),
                   <<NL>> \o observation_prefix(c_i)),
               observation)]

\* the tool calls that touch self.document once: a Search the docstore does
\* not answer with a Document (lines 81, 86-87) and a Lookup that finds
\* self.document None (lines 91-92)
ConcDispatchTool(r) ==
    /\ c_runs[r].state = "DISPATCHING_TOOL"
    /\ Registered(tools, c_runs[r].parsed.tool)
    /\ \E me \in {c_runs[r]} :
         /\ IF me.parsed.tool = SEARCH
            THEN ~DocstoreSearch(me.parsed.input).isdoc
            ELSE c_document = "None"
         /\ \E t \in {InvokeTool(me.parsed.tool, me.parsed.input, c_document)} :
              /\ c_document' = t.document
              /\ c_runs' = [c_runs EXCEPT ![r] = ConcReturned(me, t.observation)]
    /\ UNCHANGED <<c_i, loopvars, pvars, lvars, sbvars, bwvars>>

\* search, lines 81-83: the Document found is stored in self.document;
\* opened is the set of documents this run's own Search calls found
ConcSearchStore(r) ==
    /\ c_runs[r].state = "DISPATCHING_TOOL"
    /\ Registered(tools, c_runs[r].parsed.tool)
    /\ c_runs[r].parsed.tool = SEARCH
    /\ \E found \in {DocstoreSearch(c_runs[r].parsed.input)} :
         /\ found.isdoc
         /\ c_document' = found.doc
         /\ c_runs' = [c_runs EXCEPT ![r].state = "SEARCH_STORED",
                                     ![r].opened = c_runs[r].opened \cup {found.doc}]
    /\ UNCHANGED <<c_i, loopvars, pvars, lvars, sbvars, bwvars>>

\* search, line 84: self.document is read again for its summary
ConcSearchReturn(r) ==
    /\ c_runs[r].state = "SEARCH_STORED"
    /\ c_runs' = [c_runs EXCEPT ![r] =
                    ConcReturned(c_runs[r],
                                IF c_document = "None" THEN AttributeErrorText(S_summary)
                                ELSE DocumentSummary(c_document))]
    /\ UNCHANGED <<c_i, c_document, loopvars, pvars, lvars, sbvars, bwvars>>

\* lookup, line 91: self.document is not None
ConcLookupTest(r) ==
    /\ c_runs[r].state = "DISPATCHING_TOOL"
    /\ Registered(tools, c_runs[r].parsed.tool)
    /\ c_runs[r].parsed.tool # SEARCH
    /\ c_document # "None"
    /\ c_runs' = [c_runs EXCEPT ![r].state = "LOOKUP_TESTED"]
    /\ UNCHANGED <<c_i, c_document, loopvars, pvars, lvars, sbvars, bwvars>>

\* lookup, line 93: self.document is read again for its lookup; read is the
\* document this run's last successful Lookup read
ConcLookupReturn(r) ==
    /\ c_runs[r].state = "LOOKUP_TESTED"
    /\ \E me \in {c_runs[r]} :
         c_runs' = [c_runs EXCEPT ![r] =
                      IF c_document = "None"
                      THEN ConcReturned(me, AttributeErrorText(S_lookup))
                      ELSE [ConcReturned(me, DocumentLookup(c_document, me.parsed.input))
                              EXCEPT !.read = c_document]]
    /\ UNCHANGED <<c_i, c_document, loopvars, pvars, lvars, sbvars, bwvars>>

\* the loop after the tool call: observation_prefix with self.i as it is
\* now, the Step appended and the transcript extended
ConcObserve(r) ==
    /\ c_runs[r].state = "OBSERVING"
    /\ c_runs' = [c_runs EXCEPT ![r] = ConcStepped(c_runs[r], c_runs[r].observation)]
    /\ UNCHANGED <<c_i, c_document, loopvars, pvars, lvars, sbvars, bwvars>>

ConcNext ==
    \E r \in Runs :
        \/ ConcStartRun(r)
        \/ ConcInvokeModel(r)
        \/ ConcLimitExceeded(r)
        \/ ConcParseRepair(r)
        \/ ConcFixText(r)
        \/ ConcParseFail(r)
        \/ ConcParseTest(r)
        \/ ConcIncrementRead(r)
        \/ ConcParseHardError(r)
        \/ ConcParseFinish(r)
        \/ ConcParseTool(r)
        \/ ConcDispatchNotFound(r)
        \/ ConcDispatchTool(r)
        \/ ConcSearchStore(r)
        \/ ConcSearchReturn(r)
        \/ ConcLookupTest(r)
        \/ ConcLookupReturn(r)
        \/ ConcObserve(r)

ConcSpec == ConcInit /\ [][ConcNext]_vars

\* ------------------------------------------------------------- the loader
\* AGENT_TO_CLASS
AGENT_TO_CLASS ==
    [t \in {"zero-shot-react-description", "react-docstore", "self-ask-with-search",
            "conversational-react-description"} |->
        CASE t = "zero-shot-react-description" -> "ZeroShotAgent"
          [] t = "react-docstore" -> "ReActDocstoreAgent"
          [] t = "self-ask-with-search" -> "SelfAskWithSearchAgent"
          [] t = "conversational-react-description" -> "ConversationalAgent"]

\* The chain loaders of langchain.chains.loading: the chain they return
load_chain_from_config(c) == "chain of config"
load_chain(path) == "chain of path"

\* The chain loads load_agent_from_config makes for a config, in order
ChainLoads(config) ==
    IF Has(config, "llm_chain") THEN <<"load_chain_from_config">>
    ELSE IF Has(config, "llm_chain_path") THEN <<"load_chain">>
    ELSE <<>>

Raised(msg, config, loads) ==
    [error |-> msg, config |-> config, loaded |-> loads, agent |-> NoAgent]

\* load_agent_from_config: the ValueError raised or the agent constructed,
\* the chain loads made, and the caller's dict afterwards
\* (LoadChainBeforeTypeCheck: the variant that loads the chain first)
LoadChainBeforeTypeCheck(config, kwargs) ==
    IF ~Has(config, "_type")
    THEN Raised("Must specify an agent Type in config", config, ChainLoads(config))
    ELSE LET config_type == config["_type"]
             popped == Pop(config, "_type")
         IN  IF config_type \notin DOMAIN AGENT_TO_CLASS
             THEN Raised("Loading agent not supported", popped, ChainLoads(config))
             ELSE IF ChainLoads(config) = <<>>
                  THEN Raised("One of llm_chain and llm_chain_path should be specified.",
                              popped, <<>>)
                  ELSE LET chained ==
                               IF Has(popped, "llm_chain")
                               THEN Put(popped, "llm_chain",
                                        load_chain_from_config(popped["llm_chain"]))
                               ELSE Put(Pop(popped, "llm_chain_path"), "llm_chain",
                                        load_chain(popped["llm_chain_path"]))
                       IN  [error |-> "none", config |-> chained,
                            loaded |-> ChainLoads(config),
                            agent |-> [cls |-> AGENT_TO_CLASS[config_type],
                                       config |-> Merge(chained, kwargs)]]
load_agent_from_config(config, kwargs) ==
    IF ~Has(config, "_type")
    THEN Raised("Must specify an agent Type in config", config, <<>>)
    ELSE LET config_type == config["_type"]
             popped == Pop(config, "_type")
         IN  IF config_type \notin DOMAIN AGENT_TO_CLASS
             THEN Raised("Loading agent not supported", popped, <<>>)
             ELSE LET agent_cls == AGENT_TO_CLASS[config_type]
                  IN  IF Has(popped, "llm_chain")
                      THEN LET chained == Put(popped, "llm_chain",
                                              load_chain_from_config(popped["llm_chain"]))
                           IN  [error |-> "none", config |-> chained,
                                loaded |-> <<"load_chain_from_config">>,
                                agent |-> [cls |-> agent_cls,
                                           config |-> Merge(chained, kwargs)]]
                      ELSE IF Has(popped, "llm_chain_path")
                      THEN LET chained == Put(Pop(popped, "llm_chain_path"), "llm_chain",
                                              load_chain(popped["llm_chain_path"]))
                           IN  [error |-> "none", config |-> chained,
                                loaded |-> <<"load_chain">>,
                                agent |-> [cls |-> agent_cls,
                                           config |-> Merge(chained, kwargs)]]
                      ELSE Raised("One of llm_chain and llm_chain_path should be specified.",
                                  popped, <<>>)

\* The configurations offered: every choice of `_type` (absent, the four
\* supported names, one unsupported name) and of the other keys
ConfigTypes == {"absent", "unsupported-agent"} \cup DOMAIN AGENT_TO_CLASS
Configs ==
    { [k \in (IF t = "absent" THEN {} ELSE {"_type"}) \cup ks |->
          CASE k = "_type" -> t
            [] k = "llm_chain" -> "chain config"
            [] k = "llm_chain_path" -> "chain.json"
            [] k = "allowed_tools" -> "tools of config"] :
        t \in ConfigTypes, ks \in SUBSET {"llm_chain", "llm_chain_path", "allowed_tools"} }

Kwargs == {EmptyDict, [k \in {"allowed_tools"} |-> "tools of kwargs"]}

\* lc://agents/... paths with the status the hub answers, and local paths
Paths ==
    {[hub |-> TRUE, suffix |-> x, status |-> c] : x \in {"json", "yaml", "txt"}, c \in {200, 404}}
      \cup {[hub |-> FALSE, suffix |-> x, status |-> 0] : x \in {"json", "yaml", "txt"}}

\* a call of load_agent_from_config(config, **kwargs) or of
\* load_agent(path, **kwargs); l_file is the configuration as written
LoaderInit ==
    /\ LoopIdle
    /\ PIdle
    /\ CIdle
    /\ SBIdle
    /\ BWIdle
    /\ l_file \in Configs
    /\ l_kwargs \in Kwargs
    /\ l_given = l_kwargs
    /\ l_loaded = <<>>
    /\ l_agent = NoAgent
    /\ l_error = "none"
    /\ \/ l_pc = "load_agent_from_config" /\ l_path = NoPath /\ l_config = l_file
       \/ l_pc = "load_agent" /\ l_path \in Paths /\ l_config = EmptyDict

LoaderRaise(msg) ==
    /\ l_pc' = "done"
    /\ l_error' = msg

\* load_agent
LoadAgent ==
    /\ l_pc = "load_agent"
    /\ l_pc' = IF l_path.hub THEN "_load_from_hub" ELSE "_load_agent_from_file"
    /\ UNCHANGED <<l_given, l_path, l_file, l_config, l_kwargs, l_loaded, l_agent, l_error,
                   loopvars, pvars, cvars, sbvars, bwvars>>

\* _load_from_hub: the file is handed on without the keyword overrides
LoadFromHub ==
    /\ l_pc = "_load_from_hub"
    /\ IF l_path.suffix \notin {"json", "yaml"}
       THEN LoaderRaise("Unsupported file type.") /\ UNCHANGED l_kwargs
       ELSE IF l_path.status # 200
       THEN LoaderRaise("Could not find file") /\ UNCHANGED l_kwargs
       ELSE /\ l_pc' = "_load_agent_from_file"
            /\ l_kwargs' = EmptyDict
            /\ UNCHANGED l_error
    /\ UNCHANGED <<l_given, l_path, l_file, l_config, l_loaded, l_agent, loopvars, pvars, cvars, sbvars, bwvars>>

\* _load_agent_from_file
LoadAgentFromFile ==
    /\ l_pc = "_load_agent_from_file"
    /\ IF l_path.suffix \in {"json", "yaml"}
       THEN /\ l_config' = l_file
            /\ l_pc' = "load_agent_from_config"
            /\ UNCHANGED l_error
       ELSE LoaderRaise("File type must be json or yaml") /\ UNCHANGED l_config
    /\ UNCHANGED <<l_given, l_path, l_file, l_kwargs, l_loaded, l_agent, loopvars, pvars, cvars, sbvars, bwvars>>

\* load_agent_from_config
LoadAgentFromConfig ==
    /\ l_pc = "load_agent_from_config"
    /\ \E r \in {load_agent_from_config(l_config, l_kwargs)} :
         /\ l_config' = r.config
         /\ l_loaded' = r.loaded
         /\ l_agent' = r.agent
         /\ l_error' = r.error
    /\ l_pc' = "done"
    /\ UNCHANGED <<l_given, l_path, l_file, l_kwargs, loopvars, pvars, cvars, sbvars, bwvars>>

LoaderNext ==
    \/ LoadAgent
    \/ LoadFromHub
    \/ LoadAgentFromFile
    \/ LoadAgentFromConfig

LoaderSpec == LoaderInit /\ [][LoaderNext]_vars

\* ---------------------------------------------------- conversation memory
S_Human == <<"H", "u", "m", "a", "n", ":", " ">>
ai_prefix == <<"A", "I">>
memory_variables == {"history"}

\* sep.join(list)
RECURSIVE Join(_, _)
Join(list, sep) ==
    IF Len(list) = 0 THEN <<>>
    ELSE IF Len(list) = 1 THEN list[1]
    ELSE list[1] \o sep \o Join(Tail(list), sep)

\* _get_prompt_input_key: the ValueError raised, or the one key that is
\* neither a memory variable nor "stop"
_get_prompt_input_key(inputs, memvars) ==
    LET prompt_input_keys == DOMAIN inputs \ (memvars \cup {"stop"})
    IN  IF Cardinality(prompt_input_keys) # 1
        THEN [raised |-> TRUE, key |-> ""]
        ELSE [raised |-> FALSE, key |-> CHOOSE x \in prompt_input_keys : TRUE]

\* the first lines of save_context: the ValueError raised, or the exchange
\* "Human: ...\nAI: ..."
NewLines(inputs, outputs) ==
    LET k == _get_prompt_input_key(inputs, memory_variables)
    IN  IF k.raised \/ Cardinality(DOMAIN outputs) # 1
        THEN [raised |-> TRUE, text |-> <<>>]
        ELSE [raised |-> FALSE,
              text |-> S_Human \o inputs[k.key] \o <<NL>> \o ai_prefix \o <<":", " ">>
                         \o outputs[CHOOSE x \in DOMAIN outputs : TRUE]]

\* The inputs and outputs a chain hands to save_context: a question of one
\* or two words, alone, with a stop key, with the history key, with a second
\* prompt key, or with no prompt key; one response, or two output keys
Words == {<<"w">>, <<"w", "w">>}
MemInputs ==
    { [k \in {"input"} \cup extra |-> IF k = "input" THEN q ELSE <<"e">>] :
        q \in Words, extra \in {{}, {"stop"}, {"history"}, {"topic"}} }
      \cup { [k \in {"stop"} |-> <<"e">>] }
MemOutputs ==
    { [k \in {"response"} \cup extra |-> <<"o">>] : extra \in {{}, {"source"}} }

\* The tokenizer (tiktoken, gpt2): the number of tokens of a text; here each
\* word of the question is one token
NumTokens(s) == Cardinality({k \in 1..Len(s) : s[k] = "w"})
get_num_tokens_list(arr) == [k \in 1..Len(arr) |-> NumTokens(arr[k])]

RECURSIVE Sum(_)
Sum(arr) == IF Len(arr) = 0 THEN 0 ELSE arr[1] + Sum(Tail(arr))

\* The summarizer chain (LLMChain.predict): the new summary
predict(summary, new_lines) == summary \o <<"#">> \o new_lines

\* The test of the pruning loop (PruneOnce: the variant that leaves the loop
\* after one turn, `if` in place of `while`)
PruneOnce(curr_buffer_length, limit) == FALSE
WhileOver(curr_buffer_length, limit) == curr_buffer_length > limit

SBInit ==
    /\ LoopIdle
    /\ PIdle
    /\ CIdle
    /\ LIdle
    /\ BWIdle
    /\ SBNew
    /\ max_token_limit \in 0..MaxLimit
    /\ sb_calls = [t \in {1} |-> CallIdle]

\* thread t calls the memory and is at pc
At(t, pc) == t \in DOMAIN sb_calls /\ sb_calls[t].pc = pc

\* save_context returns, or raises, in thread t
SBReturn(t, raised) ==
    /\ sb_calls' = [sb_calls EXCEPT ![t] = CallIdle]
    /\ sb_ret' = [call |-> "save_context", raised |-> raised, value |-> <<>>]

\* save_context, lines 201-207: the ValueError of the validation, or the
\* exchange appended to buffer
SBSaveContext(t) ==
    /\ At(t, "idle")
    /\ sb_appends < MaxSaves
    /\ \E inputs \in MemInputs, outputs \in MemOutputs :
         \E new_lines \in {NewLines(inputs, outputs)} :
            IF new_lines.raised
            THEN /\ SBReturn(t, TRUE)
                 /\ UNCHANGED <<sb_buffer, sb_saved, sb_appends>>
            ELSE /\ sb_buffer' = Append(sb_buffer, new_lines.text)
                 /\ sb_appends' = sb_appends + 1
                 /\ sb_saved' = Append(sb_saved, new_lines.text)
                 /\ sb_calls' = [sb_calls EXCEPT ![t] =
                                   [CallIdle EXCEPT !.pc = "count",
                                                    !.new_lines = new_lines.text,
                                                    !.entry = sb_buffer]]
                 /\ UNCHANGED sb_ret
    /\ UNCHANGED <<moving_summary_buffer, max_token_limit, sb_stored,
                   loopvars, pvars, cvars, lvars, bwvars>>

\* save_context, lines 209-211: the tokens of buffer as it is now are
\* counted (the tokenizer may raise); at most the limit, the call returns
SBCount(t) ==
    /\ At(t, "count")
    /\ \/ SBReturn(t, TRUE)
       \/ /\ Sum(get_num_tokens_list(sb_buffer)) > max_token_limit
          /\ sb_calls' = [sb_calls EXCEPT ![t].pc = "pop"]
          /\ UNCHANGED sb_ret
       \/ /\ Sum(get_num_tokens_list(sb_buffer)) <= max_token_limit
          /\ SBReturn(t, FALSE)
    /\ UNCHANGED <<sb_buffer, moving_summary_buffer, max_token_limit, sb_saved, sb_stored,
                   sb_appends,
                   loopvars, pvars, cvars, lvars, bwvars>>

\* save_context, line 213: the oldest entry of buffer as it is now moves to
\* pruned_memory (IndexError when another thread emptied the buffer)
SBPop(t) ==
    /\ At(t, "pop")
    /\ IF sb_buffer = <<>>
       THEN /\ SBReturn(t, TRUE)
            /\ UNCHANGED sb_buffer
       ELSE /\ sb_buffer' = Tail(sb_buffer)
            /\ sb_calls' = [sb_calls EXCEPT
                              ![t].pc = "recount",
                              ![t].pruned_memory = Append(@, Head(sb_buffer))]
            /\ UNCHANGED sb_ret
    /\ UNCHANGED <<moving_summary_buffer, max_token_limit, sb_saved, sb_stored,
                   sb_appends,
                   loopvars, pvars, cvars, lvars, bwvars>>

\* save_context, lines 214 and 212: the tokens are counted again (the
\* tokenizer may raise) and the loop goes on or ends
SBRecount(t) ==
    /\ At(t, "recount")
    /\ \/ SBReturn(t, TRUE)
       \/ /\ sb_calls' = [sb_calls EXCEPT ![t].pc =
                            IF WhileOver(Sum(get_num_tokens_list(sb_buffer)),
                                         max_token_limit)
                            THEN "pop" ELSE "predict"]
          /\ UNCHANGED sb_ret
    /\ UNCHANGED <<sb_buffer, moving_summary_buffer, max_token_limit, sb_saved, sb_stored,
                   sb_appends,
                   loopvars, pvars, cvars, lvars, bwvars>>

\* save_context, lines 215-218: chain.predict is called with the summary as
\* it is now and the thread waits for the language model
SBPredictCall(t) ==
    /\ At(t, "predict")
    /\ sb_calls' = [sb_calls EXCEPT ![t].pc = "waiting",
                                    ![t].summary = moving_summary_buffer]
    /\ UNCHANGED <<sb_buffer, moving_summary_buffer, max_token_limit, sb_saved, sb_stored,
                   sb_ret, sb_appends,
                   loopvars, pvars, cvars, lvars, bwvars>>

\* save_context, line 216: chain.predict raises, or its result is stored in
\* moving_summary_buffer and the call returns
SBPredictReturn(t) ==
    /\ At(t, "waiting")
    /\ \/ /\ SBReturn(t, TRUE)
          /\ UNCHANGED <<moving_summary_buffer, sb_stored>>
       \/ /\ moving_summary_buffer' =
                predict(sb_calls[t].summary, Join(sb_calls[t].pruned_memory, <<NL>>))
          /\ sb_stored' = Append(sb_stored, sb_calls[t].pruned_memory)
          /\ SBReturn(t, FALSE)
    /\ UNCHANGED <<sb_buffer, max_token_limit, sb_saved,
                   sb_appends,
                   loopvars, pvars, cvars, lvars, bwvars>>

\* load_memory_variables, line 163: moving_summary_buffer as it is now is
\* compared with "" (the summary field of the call is empty until line 165
\* reads the attribute)
SBLoadMemoryVariables(t) ==
    /\ At(t, "idle")
    /\ sb_calls' = [sb_calls EXCEPT ![t].pc =
                       IF moving_summary_buffer = <<>> THEN "load_buffer"
                       ELSE "load_summary"]
    /\ UNCHANGED <<sb_buffer, moving_summary_buffer, max_token_limit, sb_saved, sb_stored,
                   sb_ret, sb_appends,
                   loopvars, pvars, cvars, lvars, bwvars>>

\* load_memory_variables, line 165, left operand: moving_summary_buffer as it
\* is now, with the "\n" that follows it
SBLoadSummary(t) ==
    /\ At(t, "load_summary")
    /\ sb_calls' = [sb_calls EXCEPT ![t].pc = "load_buffer",
                                    ![t].summary = moving_summary_buffer \o <<NL>>]
    /\ UNCHANGED <<sb_buffer, moving_summary_buffer, max_token_limit, sb_saved, sb_stored,
                   sb_ret, sb_appends,
                   loopvars, pvars, cvars, lvars, bwvars>>

\* load_memory_variables, line 164 or line 165, right operand: buffer as it
\* is now is joined and the call returns
SBLoadBuffer(t) ==
    /\ At(t, "load_buffer")
    /\ sb_calls' = [sb_calls EXCEPT ![t] = CallIdle]
    /\ sb_ret' = [call |-> "load_memory_variables", raised |-> FALSE,
                  value |-> sb_calls[t].summary \o Join(sb_buffer, <<NL>>)]
    /\ UNCHANGED <<sb_buffer, moving_summary_buffer, max_token_limit, sb_saved, sb_stored,
                   sb_appends,
                   loopvars, pvars, cvars, lvars, bwvars>>

\* clear, line 222: buffer is set to the empty list
SBClear(t) ==
    /\ At(t, "idle")
    /\ sb_buffer' = <<>>
    /\ sb_saved' = <<>>
    /\ sb_calls' = [sb_calls EXCEPT ![t].pc = "clear_summary"]
    /\ UNCHANGED <<moving_summary_buffer, max_token_limit, sb_stored, sb_ret, sb_appends,
                   loopvars, pvars, cvars, lvars, bwvars>>

\* clear, line 223: moving_summary_buffer is set to "" and the call returns
SBClearSummary(t) ==
    /\ At(t, "clear_summary")
    /\ moving_summary_buffer' = <<>>
    /\ sb_stored' = <<>>
    /\ sb_calls' = [sb_calls EXCEPT ![t] = CallIdle]
    /\ sb_ret' = [call |-> "clear", raised |-> FALSE, value |-> <<>>]
    /\ UNCHANGED <<sb_buffer, max_token_limit, sb_saved, sb_appends,
                   loopvars, pvars, cvars, lvars, bwvars>>

SBNext ==
    \E t \in Callers :
        \/ SBSaveContext(t)
        \/ SBCount(t)
        \/ SBPop(t)
        \/ SBRecount(t)
        \/ SBPredictCall(t)
        \/ SBPredictReturn(t)
        \/ SBLoadMemoryVariables(t)
        \/ SBLoadSummary(t)
        \/ SBLoadBuffer(t)
        \/ SBClear(t)
        \/ SBClearSummary(t)

\* the memory called by one thread
SummaryBufferSpec == SBInit /\ [][SBNext]_vars

\* the memory called by two threads with no lock
SBConcInit ==
    /\ LoopIdle
    /\ PIdle
    /\ CIdle
    /\ LIdle
    /\ BWIdle
    /\ SBNew
    /\ max_token_limit \in 0..MaxLimit
    /\ sb_calls = [t \in Callers |-> CallIdle]

SummaryBufferConcSpec == SBConcInit /\ [][SBNext]_vars

\* ConversationalBufferWindowMemory: buffer[-k:], as Python slices it (-0 is
\* 0, so k = 0 takes the slice from the start)
LastK(buffer, k) ==
    IF k = 0 THEN buffer
    ELSE IF k >= Len(buffer) THEN buffer
    ELSE SubSeq(buffer, Len(buffer) - k + 1, Len(buffer))

\* ConversationalBufferWindowMemory.load_memory_variables
BufferWindowLoad(buffer, k) == Join(LastK(buffer, k), <<NL>>)

BWInit ==
    /\ LoopIdle
    /\ PIdle
    /\ CIdle
    /\ LIdle
    /\ SBIdle
    /\ BWNew
    /\ bw_k \in 0..MaxK

\* ConversationalBufferWindowMemory.save_context
BWSaveContext ==
    /\ Len(bw_saved) < MaxSaves
    /\ \E inputs \in MemInputs, outputs \in MemOutputs :
         \E new_lines \in {NewLines(inputs, outputs)} :
            /\ bw_buffer' = IF new_lines.raised THEN bw_buffer
                            ELSE Append(bw_buffer, new_lines.text)
            /\ bw_saved' = IF new_lines.raised THEN bw_saved
                           ELSE Append(bw_saved, new_lines.text)
            /\ bw_ret' = [call |-> "save_context", raised |-> new_lines.raised,
                          value |-> <<>>]
    /\ UNCHANGED <<bw_k, loopvars, pvars, cvars, lvars, sbvars>>

BWLoadMemoryVariables ==
    /\ bw_ret' = [call |-> "load_memory_variables", raised |-> FALSE,
                  value |-> BufferWindowLoad(bw_buffer, bw_k)]
    /\ UNCHANGED <<bw_buffer, bw_k, bw_saved, loopvars, pvars, cvars, lvars, sbvars>>

\* ConversationalBufferWindowMemory.clear
BWClear ==
    /\ bw_buffer' = <<>>
    /\ bw_saved' = <<>>
    /\ bw_ret' = [call |-> "clear", raised |-> FALSE, value |-> <<>>]
    /\ UNCHANGED <<bw_k, loopvars, pvars, cvars, lvars, sbvars>>

BWNext ==
    \/ BWSaveContext
    \/ BWLoadMemoryVariables
    \/ BWClear

BufferWindowSpec == BWInit /\ [][BWNext]_vars

\* ------------------------------------------------------------------ claims
\* The last line starts with the literal "Action n: "
CarriesActionPrefix(line, n) ==
    \E k \in 0..Len(line) : SubSeq(line, 1, k) = S_Action \o Str(n) \o <<":", " ">>

\* The integer the parser requires in "Action n: "
ExpectedActionNumber ==
    LET p == action_prefix(i)
    IN  ParseInt(SubSeq(p, Len(S_Action) + 1, Len(p) - 2))

LastStep == scratchpad[Len(scratchpad)]

\* C1: whenever the model has been invoked and its response awaits parsing,
\* the integer of the prompt's trailing "Thought n:" cue is the integer the
\* parser requires in "Action n: ".
C1_StepNumbering ==
    state = "AWAITING_MODEL" => CueNumber(prompt) = ExpectedActionNumber

C1_Witness ==
    /\ state = "AWAITING_MODEL"
    /\ run = 2
    /\ retried
    /\ Len(scratchpad) = 1
    /\ CueNumber(prompt) = i
    /\ i >= 3

\* C2: a response whose last line does not start with "Action n: " for the
\* current step counter n is Unparseable: the parse dispatches no tool,
\* appends no Step, ends in no final answer and leaves the counter unchanged.
C2_WrongPrefixUnparseable ==
    [][(state = "AWAITING_MODEL" /\ ~CarriesActionPrefix(LastLine(output), i))
         => /\ i' = i
            /\ scratchpad' = scratchpad
            /\ tool_calls' = tool_calls
            /\ parsed' = parsed
            /\ state' # "DISPATCHING_TOOL"
            /\ outcome' # "success"
            /\ document' = document]_vars

C2_Witness ==
    /\ state = "AWAITING_MODEL"
    /\ retried
    /\ StartsWith(output, WrongNumber(i))
    /\ tool_calls = Len(scratchpad)
    /\ i = 2

\* C3: within one run every transition leaves the earlier scratchpad (and its
\* serialized transcript) a prefix of the later one, and a completed
\* iteration appends exactly one Step.
C3_ScratchpadMonotonic ==
    [][run' = run
         => /\ IsPrefix(scratchpad, scratchpad')
            /\ Len(scratchpad') <= Len(scratchpad) + 1
            /\ IsPrefix(chained_input, chained_input')
            /\ (state = "DISPATCHING_TOOL" /\ state' = "RUNNING"
                  => Len(scratchpad') = Len(scratchpad) + 1)
            /\ (Len(scratchpad') = Len(scratchpad) + 1
                  => state = "DISPATCHING_TOOL" /\ state' = "RUNNING")]_vars

C3_Witness ==
    /\ state = "RUNNING"
    /\ Len(scratchpad) = 2
    /\ retried
    /\ IsPrefix(Question, chained_input)

\* C4: every run starts in RUNNING with an empty scratchpad and the step
\* counter at 1, a second run on the same agent included.
C4_FreshRun ==
    (state = "RUNNING" /\ model_calls = 0) => (scratchpad = <<>> /\ i = 1)

\* C5: a Lookup made when no Search of the run has found a document gives the
\* usage error and leaves no document open; a Lookup made with a found
\* document open gives that document's lookup of the term.
C5_LookupNeedsSearch ==
    (state = "RUNNING" /\ Len(scratchpad) > 0 /\ LastStep.tool_name = LOOKUP)
      => /\ ~searched => LastStep.observation = LookupErrorText /\ document = "None"
         /\ (searched /\ document # "None")
              => LastStep.observation = DocumentLookup(document, LastStep.tool_input)

\* C6: the open document is reset when a run starts, so a Lookup that is the
\* first action of a later run gives the usage error.
C6_DocumentResetPerRun ==
    /\ (state = "RUNNING" /\ model_calls = 0) => document = "None"
    /\ (run >= 2 /\ Len(scratchpad) = 1 /\ scratchpad[1].tool_name = LOOKUP)
         => scratchpad[1].observation = LookupErrorText

\* C7: construction succeeds exactly for the two-tool lists naming Search and
\* Lookup, in either order, fails for every other list, and no run starts on
\* or reports a configuration error.
C7_ToolValidation ==
    /\ agent = "constructed" => tools \in {<<SEARCH, LOOKUP>>, <<LOOKUP, SEARCH>>}
    /\ agent = "config_error" => tools \notin {<<SEARCH, LOOKUP>>, <<LOOKUP, SEARCH>>}
    /\ state # "IDLE" => agent = "constructed"
    /\ error # "ConfigurationError"

C7_Witness ==
    /\ agent = "config_error"
    /\ Len(tools) = 3
    /\ {tools[k] : k \in 1..Len(tools)} = {SEARCH, LOOKUP}

\* C8: an Unparseable response gets the corrective "Action n:" suffix and one
\* more model invocation; an Unparseable repaired output ends the run with
\* ParseError, the scratchpad untouched; no step invokes the model more than
\* twice.
C8_OneRepairRetry ==
    /\ [](step_calls <= 2 /\ (retried => step_calls = 2))
    /\ [][(state = "AWAITING_MODEL" /\ ~CarriesActionPrefix(LastLine(output), i))
            => /\ scratchpad' = scratchpad
               /\ ~retried
                    => /\ state' = "AWAITING_MODEL"
                       /\ retried'
                       /\ model_calls' = model_calls + 1
                       /\ LastLine(prompt') = S_Action \o Str(i) \o <<":">>
                       /\ IsPrefix(output \o <<NL>> \o S_Action \o Str(i) \o <<":">>, output')
               /\ retried
                    => /\ state' = "DONE"
                       /\ outcome' = "failure"
                       /\ error' = "ParseError"
                       /\ model_calls' = model_calls]_vars

C8_Witness ==
    /\ state = "DONE"
    /\ error = "ParseError"
    /\ retried
    /\ step_calls = 2
    /\ ~CarriesActionPrefix(LastLine(output), i)
    /\ Len(scratchpad) = 0
    /\ model_calls = 2

\* C9: a well-formed action naming a tool outside the registry
\* {Search, Lookup} ends the run with DispatchError at once: no model
\* invocation, no repair retry, no tool invocation and no Step follow it.
C9_UnknownToolFailsAtOnce ==
    [][(state = "DISPATCHING_TOOL" /\ parsed.tool \notin {SEARCH, LOOKUP})
         => /\ state' = "DONE"
            /\ outcome' = "failure"
            /\ error' = "DispatchError"
            /\ model_calls' = model_calls
            /\ step_calls' = step_calls
            /\ retried' = retried
            /\ tool_calls' = tool_calls
            /\ scratchpad' = scratchpad
            /\ document' = document]_vars

C9_Witness ==
    /\ state = "DONE"
    /\ error = "DispatchError"
    /\ parsed.tool = CALCULATE
    /\ ~retried
    /\ model_calls = 1
    /\ tool_calls = 0
    /\ scratchpad = <<>>

\* C10: the run fails with IterationLimitExceeded exactly when max_iterations
\* Steps are completed: the scratchpad then holds max_iterations Steps, no
\* further model or tool invocation is made, and the failure is not a
\* ParseError.
C10_IterationLimit ==
    /\ [](/\ Len(scratchpad) <= max_iterations
          /\ tool_calls <= max_iterations
          /\ error = "IterationLimitExceeded"
               => /\ state = "DONE"
                  /\ outcome = "failure"
                  /\ Len(scratchpad) = max_iterations
                  /\ tool_calls = max_iterations
                  /\ error # "ParseError")
    /\ [][(state = "RUNNING" /\ Len(scratchpad) = max_iterations /\ run' = run)
            => /\ state' = "DONE"
               /\ error' = "IterationLimitExceeded"
               /\ model_calls' = model_calls
               /\ tool_calls' = tool_calls]_vars

C10_Witness ==
    /\ state = "DONE"
    /\ error = "IterationLimitExceeded"
    /\ max_iterations = MaxIter
    /\ Len(scratchpad) = MaxIter
    /\ tool_calls = MaxIter
    /\ model_calls = MaxIter

\* A "[" followed later by a "]"
HasBracketPair(r) ==
    \E p \in 1..Len(r) : \E q \in 1..Len(r) : p < q /\ r[p] = "[" /\ r[q] = "]"

\* The text of a line after the "Action n: " prefix it carries
AfterPrefix(line, n) == SubSeq(line, Len(S_Action) + Len(Str(n)) + 3, Len(line))

\* C11: a parsed action named "Finish" ends the run in DONE(success) with the
\* bracketed input as the result; it is not handed to dispatch and no tool is
\* invoked for it.
C11_FinishReturnsInput ==
    [][(/\ state = "AWAITING_MODEL"
        /\ LastLine(output) = action_prefix(i) \o Bracketed(FINISH, <<"x">>))
         => /\ state' = "DONE"
            /\ outcome' = "success"
            /\ error' = "none"
            /\ result' = <<"x">>
            /\ parsed' = parsed
            /\ tool_calls' = tool_calls
            /\ scratchpad' = scratchpad
            /\ document' = document]_vars

C11_Witness ==
    /\ state = "DONE"
    /\ outcome = "success"
    /\ result = <<"x">>
    /\ parsed = NoAction
    /\ tool_calls = 0
    /\ LastLine(output) = action_prefix(1) \o Bracketed(FINISH, <<"x">>)

\* C14: the usage error of a Lookup with no document open does not end the
\* run: a Step with the error text as its observation is appended and the
\* loop is RUNNING again; a dispatch of a registered tool ends the run only
\* with the unrecoverable tool error.
C14_RecoverableToolError ==
    /\ [][(state = "DISPATCHING_TOOL" /\ parsed.tool = LOOKUP /\ document = "None")
            => /\ state' = "RUNNING"
               /\ outcome' = "none"
               /\ error' = "none"
               /\ Len(scratchpad') = Len(scratchpad) + 1
               /\ scratchpad'[Len(scratchpad')].observation = LookupErrorText
               /\ scratchpad'[Len(scratchpad')].tool_name = LOOKUP
               /\ document' = "None"]_vars
    /\ [][(state = "DISPATCHING_TOOL" /\ Registered(tools, parsed.tool) /\ state' = "DONE")
            => outcome' = "failure" /\ error' = "ToolExecutionError"]_vars

C14_Witness ==
    /\ state = "AWAITING_MODEL"
    /\ run = 1
    /\ Len(scratchpad) = 1
    /\ scratchpad[1].tool_name = LOOKUP
    /\ scratchpad[1].observation = LookupErrorText
    /\ outcome = "none"

\* C18: the step counter is scratchpad length + 1 in every RUNNING state, and
\* still is after a parse that ends the run without appending a Step (a
\* finish action, a ParseError).
C18_CounterMovesWithStep ==
    /\ state = "RUNNING" => i = Len(scratchpad) + 1
    /\ (state = "DONE" /\ (outcome = "success" \/ error = "ParseError"))
         => i = Len(scratchpad) + 1

\* C19: a last line with the right prefix and no "[" followed by "]" ends the
\* run with ParseError at once: no repair retry, no model invocation, no
\* dispatch.
C19_BadBracketsHardError ==
    [][(/\ state = "AWAITING_MODEL"
        /\ CarriesActionPrefix(LastLine(output), i)
        /\ ~HasBracketPair(AfterPrefix(LastLine(output), i)))
         => /\ state' = "DONE"
            /\ outcome' = "failure"
            /\ error' = "ParseError"
            /\ retried' = retried
            /\ model_calls' = model_calls
            /\ tool_calls' = tool_calls
            /\ parsed' = parsed
            /\ scratchpad' = scratchpad]_vars

C19_Witness ==
    /\ state = "DONE"
    /\ error = "ParseError"
    /\ ~retried
    /\ model_calls = 1
    /\ tool_calls = 0
    /\ LastLine(output) = action_prefix(1) \o SEARCH \o <<"]", "a", "[">>

\* C20: for a remainder with a "[" followed later by a "]" the parser returns
\* the text before the first "[" as the name and the text between that "["
\* and the first "]" after it as the input, whatever follows.
C20_MinimalBracketMatch ==
    (/\ p_ret.done
     /\ CarriesActionPrefix(LastLine(p_text), p_ret.i0)
     /\ HasBracketPair(AfterPrefix(LastLine(p_text), p_ret.i0)))
      => LET r == AfterPrefix(LastLine(p_text), p_ret.i0)
         IN  /\ p_ret.kind = "Pair"
             /\ \E p \in 1..Len(r) : \E q \in (p + 1)..Len(r) :
                  /\ r[p] = "["
                  /\ r[q] = "]"
                  /\ \A k \in 1..(p - 1) : r[k] # "["
                  /\ \A k \in (p + 1)..(q - 1) : r[k] # "]"
                  /\ p_ret.tool = SubSeq(r, 1, p - 1)
                  /\ p_ret.input = SubSeq(r, p + 1, q - 1)

C20_Witness ==
    /\ p_ret.done
    /\ p_ret.kind = "Pair"
    /\ p_ret.i0 = 10
    /\ AfterPrefix(LastLine(p_text), 10) = <<"[", "]", "a", "]">>
    /\ p_ret.tool = <<>>
    /\ p_ret.input = <<>>

\* The last line is a finish action of step n
IsFinishAction(line, n) ==
    /\ CarriesActionPrefix(line, n)
    /\ StartsWith(AfterPrefix(line, n), FINISH \o <<"[">>)
    /\ HasBracketPair(AfterPrefix(line, n))

\* C13: every run reaches DONE; its outcome is success exactly when a finish
\* action was parsed, and otherwise a failure that is one of ParseError,
\* DispatchError, the unrecoverable tool error and IterationLimitExceeded;
\* once DONE, the run invokes no model or tool and changes no scratchpad.
C13_RunTerminates ==
    /\ (state \in {"RUNNING", "AWAITING_MODEL", "DISPATCHING_TOOL"}) ~> (state = "DONE")
    /\ [](state = "DONE"
            => /\ outcome \in {"success", "failure"}
               /\ outcome = "success" <=> error = "none"
               /\ outcome = "success" <=> IsFinishAction(LastLine(output), i - 1)
               /\ outcome = "failure"
                    => error \in {"ParseError", "DispatchError", "ToolExecutionError",
                                  "IterationLimitExceeded"})
    /\ [](state \in {"RUNNING", "AWAITING_MODEL", "DISPATCHING_TOOL"}
            => outcome = "none" /\ error = "none")
    /\ [][(state = "DONE" /\ run' = run)
            => UNCHANGED <<state, outcome, error, result, scratchpad, chained_input,
                           model_calls, tool_calls, i, document>>]_vars

C13_Witness ==
    /\ state = "DONE"
    /\ run = 2
    /\ error = "ToolExecutionError"
    /\ Len(scratchpad) = 1
    /\ model_calls = 2

\* C15: while two runs are interleaved on one agent, each run's prompt cues
\* the step after that run's own completed Steps, and each run's Lookup has
\* read only a document that run's own Search opened.
C15_RunsIsolated ==
    \A r \in Runs :
        /\ (c_runs[r].state = "AWAITING_MODEL" /\ ~c_runs[r].retried)
              => CueNumber(c_runs[r].prompt) = Len(c_runs[r].scratchpad) + 1
        /\ c_runs[r].read # "None" => c_runs[r].read \in c_runs[r].opened

\* load_agent_from_config has been called and has returned or raised
ConfigCallEnded ==
    /\ l_pc = "done"
    /\ \/ l_path = NoPath
       \/ /\ l_path.suffix \in {"json", "yaml"}
          /\ l_path.hub => l_path.status = 200

SupportedTypes ==
    {"zero-shot-react-description", "react-docstore", "self-ask-with-search",
     "conversational-react-description"}

\* C16: load_agent_from_config on a config without `_type`, or with a `_type`
\* that is none of the supported names, raises its configuration error with
\* no chain loaded and no agent constructed; on a supported type with neither
\* `llm_chain` nor `llm_chain_path` it raises with no agent constructed.
C16_ConfigErrorsBeforeLoad ==
    ConfigCallEnded =>
        /\ ~Has(l_file, "_type")
             => /\ l_error = "Must specify an agent Type in config"
                /\ l_loaded = <<>>
                /\ l_agent = NoAgent
        /\ (Has(l_file, "_type") /\ l_file["_type"] \notin SupportedTypes)
             => /\ l_error = "Loading agent not supported"
                /\ l_loaded = <<>>
                /\ l_agent = NoAgent
        /\ (/\ Has(l_file, "_type")
            /\ l_file["_type"] \in SupportedTypes
            /\ ~Has(l_file, "llm_chain")
            /\ ~Has(l_file, "llm_chain_path"))
             => /\ l_error = "One of llm_chain and llm_chain_path should be specified."
                /\ l_loaded = <<>>
                /\ l_agent = NoAgent

C16_Witness ==
    /\ ConfigCallEnded
    /\ Has(l_file, "_type")
    /\ l_file["_type"] = "unsupported-agent"
    /\ Has(l_file, "llm_chain")
    /\ l_error = "Loading agent not supported"
    /\ l_loaded = <<>>

\* C21: the parser's result is the result it gives for the last line alone,
\* whatever the earlier lines hold; when the last line does not carry the
\* prefix nothing is parsed and the counter stays, even when an earlier line
\* is a well-formed action.
C21_OnlyLastLine ==
    p_ret.done =>
        LET alone == _extract_tool_and_input(LastLine(p_text), p_ret.i0)
        IN  /\ p_ret.kind = alone.kind
            /\ p_ret.tool = alone.tool
            /\ p_ret.input = alone.input
            /\ p_i = alone.i
            /\ ~CarriesActionPrefix(LastLine(p_text), p_ret.i0)
                 => p_ret.kind = "None" /\ p_i = p_ret.i0

C21_Witness ==
    /\ p_ret.done
    /\ p_text = action_prefix(1) \o Bracketed(SEARCH, <<"a">>) \o <<NL, "a">>
    /\ p_ret.i0 = 1
    /\ p_ret.kind = "None"
    /\ p_i = 1

\* The name differs from a registered tool name or from the finish name, and
\* only in letter case or in spaces around it
IsNearMiss(name) ==
    /\ name \notin {SEARCH, LOOKUP, FINISH}
    /\ Lower(Strip(name)) \in {Lower(SEARCH), Lower(LOOKUP), Lower(FINISH)}

\* The name the last line carries between its prefix and its first "["
NameOnLine(line, n) ==
    LET r == AfterPrefix(line, n)
    IN  SubSeq(r, 1, Min(Positions(r, "[")) - 1)

\* C22: an action whose name is a near miss of a tool name or of the finish
\* name is parsed with the name as written, is not a final answer, and is then
\* refused with DispatchError: no tool call, no retry, no Step.
C22_ExactNameMatch ==
    /\ [][(/\ state = "AWAITING_MODEL"
           /\ CarriesActionPrefix(LastLine(output), i)
           /\ HasBracketPair(AfterPrefix(LastLine(output), i))
           /\ IsNearMiss(NameOnLine(LastLine(output), i)))
            => /\ state' = "DISPATCHING_TOOL"
               /\ parsed'.tool = NameOnLine(LastLine(output), i)
               /\ outcome' = "none"]_vars
    /\ [][(state = "DISPATCHING_TOOL" /\ IsNearMiss(parsed.tool))
            => /\ state' = "DONE"
               /\ outcome' = "failure"
               /\ error' = "DispatchError"
               /\ tool_calls' = tool_calls
               /\ model_calls' = model_calls
               /\ retried' = retried
               /\ scratchpad' = scratchpad]_vars

C22_Witness ==
    /\ state = "DONE"
    /\ error = "DispatchError"
    /\ parsed.tool = FINISH \o <<" ">>
    /\ tool_calls = 0
    /\ ~retried

\* The integer a line carries between a label and the ":" after it
LabelNumber(line, label) ==
    ParseInt(SubSeq(line, Len(label) + 1, Min(Positions(line, ":")) - 1))

\* The lines of a transcript that start with "Observation "
ObservationLines(ls) == {k \in 1..Len(ls) : StartsWith(ls[k], S_Observation)}

\* C23: the stop sequence of a model invocation carries the number of the
\* prompt's cue, and the transcript of a run with n Steps carries Thought k,
\* Action k, Observation k for k = 1..n in order: the k-th Observation line is
\* numbered k, follows a line "Action k: ..." and a cue "Thought k:".
C23_ObservationIndex ==
    /\ state = "AWAITING_MODEL"
         => stop = <<NL>> \o S_Observation \o Str(CueNumber(prompt)) \o <<":", " ">>
    /\ state = "RUNNING"
         => LET ls == Lines(chained_input)
                obs == ObservationLines(ls)
            IN  /\ Cardinality(obs) = Len(scratchpad)
                /\ \A k \in obs :
                     LET n == Cardinality({j \in obs : j <= k})
                     IN  /\ LabelNumber(ls[k], S_Observation) = n
                         /\ k > 1
                         /\ CarriesActionPrefix(ls[k - 1], n)
                         /\ \E j \in 1..(k - 1) : StartsWith(ls[j], S_Thought \o Str(n) \o <<":">>)

\* C24: a Search that finds a document makes it the open document, a Search
\* that returns suggestion text leaves no document open, a Lookup leaves the
\* open document as it is and gives the usage error when none is open, and
\* nothing else changes the open document.
C24_DocumentFollowsLastSearch ==
    [][/\ (state = "DISPATCHING_TOOL" /\ state' = "RUNNING" /\ parsed.tool = SEARCH)
           => /\ DocstoreSearch(parsed.input).isdoc
                   => document' = DocstoreSearch(parsed.input).doc
              /\ ~DocstoreSearch(parsed.input).isdoc => document' = "None"
       /\ (state = "DISPATCHING_TOOL" /\ state' = "RUNNING" /\ parsed.tool = LOOKUP)
           => /\ document' = document
              /\ document = "None"
                   => scratchpad'[Len(scratchpad')].observation = LookupErrorText
              /\ document # "None"
                   => scratchpad'[Len(scratchpad')].observation
                        = DocumentLookup(document, parsed.input)
       /\ ~(state = "DISPATCHING_TOOL" /\ state' = "RUNNING") => document' = document]_vars

C24_Witness ==
    /\ state = "RUNNING"
    /\ run = 1
    /\ Len(scratchpad) = 2
    /\ scratchpad[1].tool_name = SEARCH
    /\ scratchpad[1].observation = DocumentSummary("A")
    /\ scratchpad[2].tool_name = SEARCH
    /\ scratchpad[2].tool_input = <<"z">>
    /\ document = "None"

\* C25: with max_token_limit >= 0, after every save_context that returns
\* normally (the memory being called by one thread) the entries of
\* buffer total at most max_token_limit tokens; the entries evicted are the
\* oldest, and no more of them than needed; those that remain keep their
\* save order; and the entries one call evicts are passed, in save order, to
\* one summarizer call, whose result is stored.
C25_PruneToLimit ==
    [][ \A t \in DOMAIN sb_calls :
          (sb_calls[t].pc \in {"count", "pop", "recount", "predict", "waiting"}
             /\ sb_calls'[t].pc = "idle" /\ ~sb_ret'.raised) =>
            LET appended == Append(sb_calls[t].entry, sb_calls[t].new_lines)
                n == Len(appended) - Len(sb_buffer')
                evicted == SubSeq(appended, 1, n)
            IN  /\ max_token_limit >= 0
                /\ sb_ret'.call = "save_context"
                /\ Sum(get_num_tokens_list(sb_buffer')) <= max_token_limit
                /\ n >= 0
                /\ sb_buffer' = SubSeq(appended, n + 1, Len(appended))
                /\ n > 0 => /\ Sum(get_num_tokens_list(SubSeq(appended, n, Len(appended))))
                                 > max_token_limit
                            /\ sb_stored' = Append(sb_stored, evicted)
                            /\ moving_summary_buffer'
                                 = predict(moving_summary_buffer, Join(evicted, <<NL>>))
                /\ n = 0 => /\ sb_stored' = sb_stored
                            /\ moving_summary_buffer' = moving_summary_buffer ]_vars

\* a save_context returned normally after evicting two entries at once and
\* keeping one
C25_Witness ==
    /\ \A t \in DOMAIN sb_calls : sb_calls[t].pc = "idle"
    /\ sb_ret.call = "save_context"
    /\ ~sb_ret.raised
    /\ Len(sb_stored) > 0
    /\ Len(sb_stored[Len(sb_stored)]) = 2
    /\ Len(sb_buffer) = 1
    /\ Len(sb_saved) = 3

\* The entries of the summarizer calls whose result was stored, in call order
RECURSIVE Flatten(_)
Flatten(lists) == IF Len(lists) = 0 THEN <<>> ELSE lists[1] \o Flatten(Tail(lists))

\* C26: every exchange saved since the last clear is still in buffer or was
\* part of the new_lines of a summarizer call whose result was stored, also
\* after calls in which token counting or the summarizer raised.
C26_NoExchangeLost ==
    (\A t \in DOMAIN sb_calls : sb_calls[t].pc = "idle")
        => sb_saved = Flatten(sb_stored) \o sb_buffer

\* C27: with window k >= 0, after n save_context calls since the last clear
\* load_memory_variables returns exactly the last min(k, n) saved exchanges
\* in save order (none when k = 0), buffer keeps all n exchanges, and
\* load_memory_variables does not modify buffer.
C27_WindowOfLastK ==
    /\ bw_buffer = bw_saved
    /\ bw_ret.call = "load_memory_variables" =>
         LET n == Len(bw_saved)
             m == IF bw_k < n THEN bw_k ELSE n
         IN  bw_ret.value = Join(SubSeq(bw_saved, n - m + 1, n), <<NL>>)

\* C28: the keyword overrides given to load_agent reach load_agent_from_config
\* and the agent alike from an lc://agents hub path and from a local json or
\* yaml file: the agent is constructed with the file's configuration combined
\* with the overrides, the overrides taking precedence.
C28_KwargsReachAgent ==
    (l_pc = "done" /\ l_path # NoPath /\ l_error = "none") =>
        l_agent.config = Merge(l_config, l_given)

====
